---- MODULE Spec2Model ----
(***************************************************************************)
(* Model of the SriovFecClusterConfig reconciler (controllers package) of  *)
(* the sriov-fec operator: one reconciliation pass is a sequence of        *)
(* control-plane calls (Get, List, Delete, Create, Update, Status().Update)*)
(* against the stored objects; every call may fail.                        *)
(***************************************************************************)
EXTENDS Integers, Sequences, FiniteSets, TLC

\* ------------------------------------------------------------------ bounds

\* longest Cards list of a NodeConfig
MaxCards == 1
\* reconciliation passes started in one behaviour
MaxPasses == 2
\* longest Cards list of a NodeConfig handed to renderNodeConfigs alone
MaxRenderCards == 1

\* ------------------------------------------------------- program constants

DEFAULT_CLUSTER_CONFIG_NAME == "config"
\* os.Getenv("NAMESPACE"): the operator's namespace
NAMESPACE == "sriov-fec-system"
\* the namespace renderNodeConfigs sets on every rendered object
NodeConfigNamespace == "default"

\* ------------------------------------------------------------- value sets

NodeNames == {"n1", "n2"}
NodeNamespaces == {NodeConfigNamespace, "other"}
\* the i-th CardConfig of a list is written i
CardLists == {[i \in 1..n |-> i] : n \in 0..MaxCards}

\* what a Get answers NotFound for
Absent == [Found |-> FALSE]
NoErr == "nil"
Pending == "pending"
EmptyStatus == "empty"
AgentStatus == "reported"
\* what a per-node agent writes while the engine runs
LaterAgentStatus == "reported later"

\* sriovfecv1.NodeConfig
NodeConfig == [NodeName : NodeNames, OneCardConfigForAll : BOOLEAN, Cards : CardLists]

SeqsUpTo(S, n) == UNION {[1..k -> S] : k \in 0..n}

\* sriovfecv1.SriovFecClusterConfigSpec
\* Spec.Nodes holds up to as many entries as there are nodes; two entries may
\* name the same node
ClusterConfigSpecs ==
    [OneNodeConfigForAll : BOOLEAN,
     Nodes : SeqsUpTo(NodeConfig, Cardinality(NodeNames))]

\* the specs of the objects that are not the honored one: a valid and an invalid one
IgnoredSpecs == {spec \in ClusterConfigSpecs : spec.Nodes = <<>>}

\* the identities a notification can carry
HonoredRequest == [Namespace |-> NAMESPACE, Name |-> DEFAULT_CLUSTER_CONFIG_NAME]
Requests ==
    { HonoredRequest,
      [Namespace |-> NAMESPACE, Name |-> "another"],
      [Namespace |-> "elsewhere", Name |-> DEFAULT_CLUSTER_CONFIG_NAME] }

\* node inventories: the Items of a NodeList carry distinct names
NodeLists ==
    {s \in SeqsUpTo(NodeNames, Cardinality(NodeNames)) :
        \A i, j \in DOMAIN s : i # j => s[i] # s[j]}

\* a stored SriovFecNodeConfig is addressed by namespace and name; outside the
\* namespace of the rendered objects one name is enough (the names are
\* interchangeable)
NodeConfigKeys ==
    {k \in [Namespace : NodeNamespaces, Name : NodeNames] :
        k.Namespace = NodeConfigNamespace \/ k.Name = "n1"}

\* the spec the daemons give the NodeConfigs they recreate: empty
EmptyNodeConfigSpec == [OneCardConfigForAll |-> FALSE, Cards |-> <<>>]

\* ------------------------------------------------------------------ state

VARIABLES
    clusterConfigs,  \* stored SriovFecClusterConfig per identity, or Absent
    nodes,           \* names of the nodes carrying the accelerator labels, in list order
    nodeConfigs,     \* stored SriovFecNodeConfig per key, or Absent
    pc,              \* position of the running pass
    req,             \* the request of the running pass
    nodeCfgs,        \* Reconcile's rendered nodeConfigs
    ncList,          \* removeOldNodeConfigs: listed items not yet visited
    idx,             \* syncNodeConfigs: position in nodeCfgs
    st,              \* the status the pass is about to write
    ret,             \* the error Reconcile returns
    calls,           \* the control-plane calls of the running pass, in order
    passes,          \* passes started
    startStore,      \* nodeConfigs as the running pass found it
    prevCreated      \* the pass before the running one ended NodeConfigsCreated

\* the state of the operator's reconciler
operatorVars ==
    <<clusterConfigs, nodes, nodeConfigs, pc, req, nodeCfgs, ncList, idx, st,
      ret, calls, passes, startStore, prevCreated>>

\* the daemon's pfBBConfigController (package daemon)
VARIABLES
    dpc,             \* position of the running call
    pfCfg,           \* the call's input: BBDevConfig, PCIAddress, and which function is called
    acc,             \* what initializePfBBConfig reads before runPFConfig: deviceName, PFDriver
    files,           \* the working files, per path
    effects,         \* the file writes, removals and executed commands of the call, in order
    derr,            \* the error of the tool step (runPFConfig, pkill)
    dret             \* the error the call returns

daemonVars == <<dpc, pfCfg, acc, files, effects, derr, dret>>

vars == <<operatorVars, daemonVars>>

\* --------------------------------------------------------- pure functions

Call(op, ns, name, arg, err) ==
    [op |-> op, ns |-> ns, name |-> name, arg |-> arg, err |-> err]

Status(s, reason) == [SyncStatus |-> s, LastSyncError |-> reason]

\* mutant: a request is ignored only when both its namespace and its name differ
IdentityIgnored_Both(r) ==
    r.Namespace # NAMESPACE /\ r.Name # DEFAULT_CLUSTER_CONFIG_NAME

\* Reconcile: only one CR is honored
IdentityIgnored(r) ==
    r.Namespace # NAMESPACE \/ r.Name # DEFAULT_CLUSTER_CONFIG_NAME

\* Reconcile: the OneNodeConfigForAll checks
InvalidNodeCount(spec) ==
    spec.OneNodeConfigForAll /\ Len(spec.Nodes) # 1

InvalidUniformNode(spec) ==
    /\ spec.OneNodeConfigForAll
    /\ Len(spec.Nodes) = 1
    /\ ~spec.Nodes[1].OneCardConfigForAll

\* mutant: the OneCardConfigForAll check looks at the first node entry only
InvalidCardCount_FirstOnly(spec) ==
    /\ spec.Nodes # <<>>
    /\ spec.Nodes[1].OneCardConfigForAll
    /\ Len(spec.Nodes[1].Cards) # 1

\* Reconcile: the OneCardConfigForAll check of every node entry
InvalidCardCount(spec) ==
    \E i \in DOMAIN spec.Nodes :
        spec.Nodes[i].OneCardConfigForAll /\ Len(spec.Nodes[i].Cards) # 1

\* the reason Reconcile gives for InvalidConfig, "" for a spec it accepts
InvalidConfigReason(spec) ==
    IF InvalidNodeCount(spec)
    THEN "OneNodeConfigForAll requested but amount of provided nodeConfigs is not 1"
    ELSE IF InvalidUniformNode(spec)
    THEN "OneNodeConfigForAll requested but OneCardConfigForAll is false. It must be true"
    ELSE IF InvalidCardCount(spec)
    THEN "OneCardConfigForAll requested but amount of provided cardConfigs is not 1"
    ELSE ""

RenderedNodeConfig(name, oneCard, cards) ==
    [Name |-> name, Namespace |-> NodeConfigNamespace,
     Spec |-> [OneCardConfigForAll |-> oneCard, Cards |-> cards]]

nodeHasAccelerator(nodeList, nodeName) ==
    \E i \in DOMAIN nodeList : nodeList[i] = nodeName

\* mutant: an entry for a node without accelerator ends the loop (break for continue)
RECURSIVE renderPerNode_StopsAtDropped(_, _)
renderPerNode_StopsAtDropped(nodeSpecs, nodeList) ==
    IF nodeSpecs = <<>> THEN <<>>
    ELSE LET n == Head(nodeSpecs)
         IN IF ~nodeHasAccelerator(nodeList, n.NodeName)
            THEN <<>>
            ELSE <<RenderedNodeConfig(n.NodeName, n.OneCardConfigForAll, n.Cards)>>
                 \o renderPerNode_StopsAtDropped(Tail(nodeSpecs), nodeList)

RECURSIVE renderPerNode(_, _)
renderPerNode(nodeSpecs, nodeList) ==
    IF nodeSpecs = <<>> THEN <<>>
    ELSE LET n == Head(nodeSpecs)
             rest == renderPerNode(Tail(nodeSpecs), nodeList)
         IN IF ~nodeHasAccelerator(nodeList, n.NodeName)
            THEN rest
            ELSE <<RenderedNodeConfig(n.NodeName, n.OneCardConfigForAll, n.Cards)>> \o rest

\* mutant: OneNodeConfigForAll renders the declared entry for its own node only
renderNodeConfigs_DeclaredNodeOnly(spec, nodeList) ==
    renderPerNode(spec.Nodes, nodeList)

renderNodeConfigs(spec, nodeList) ==
    IF spec.OneNodeConfigForAll
    THEN [i \in DOMAIN nodeList |->
            RenderedNodeConfig(nodeList[i], TRUE, spec.Nodes[1].Cards)]
    ELSE renderPerNode(spec.Nodes, nodeList)

\* mutant: a listed item is kept only when a new node config has its name and
\* its namespace
deleteNC_Scoped(nc, newNodeCfgs) ==
    ~\E i \in DOMAIN newNodeCfgs :
        nc.Name = newNodeCfgs[i].Name /\ nc.Namespace = newNodeCfgs[i].Namespace

\* mutant: the test of deleteNC is inverted
deleteNC_Inverted(nc, newNodeCfgs) ==
    \E i \in DOMAIN newNodeCfgs : nc.Name = newNodeCfgs[i].Name

\* removeOldNodeConfigs: whether a listed item is deleted
deleteNC(nc, newNodeCfgs) ==
    ~\E i \in DOMAIN newNodeCfgs : nc.Name = newNodeCfgs[i].Name

\* ------------------------------------------------------ the daemon's values

\* a nil pointer
Nil == [Nil |-> TRUE]

\* error values: nil, an *exec.ExitError, any other error
DNoErr == [Kind |-> "nil"]
ExitError(code) == [Kind |-> "ExitError", ExitCode |-> code]
Errorf(msg) == [Kind |-> "error", Msg |-> msg]
\* no value returned yet
DPending == [Kind |-> "pending"]

\* pf.PCIAddress
PCIAddresses == {"0000:14:00.1", "0000:15:00.1"}

\* filepath.Join(workdir, fmt.Sprintf("%s.ini", pf.PCIAddress))
bbdevConfigFilepath(pciAddress) ==
    IF pciAddress = "0000:14:00.1" THEN "workdir/0000:14:00.1.ini"
    ELSE "workdir/0000:15:00.1.ini"

\* fmt.Sprintf("/tmp/pf_bb_config.%s.sock", pciAddress)
sockFileToBeDeleted(pciAddress) ==
    IF pciAddress = "0000:14:00.1" THEN "/tmp/pf_bb_config.0000:14:00.1.sock"
    ELSE "/tmp/pf_bb_config.0000:15:00.1.sock"

\* fmt.Sprintf("pf_bb_config.*%s", pciAddress)
pkillPattern(pciAddress) ==
    IF pciAddress = "0000:14:00.1" THEN "pf_bb_config.*0000:14:00.1"
    ELSE "pf_bb_config.*0000:15:00.1"

Paths ==
    {bbdevConfigFilepath(a) : a \in PCIAddresses} \cup {sockFileToBeDeleted(a) : a \in PCIAddresses}

\* the daemon while the operator's reconciler is looked at: no call is made
DaemonIdle ==
    /\ dpc = "idle"
    /\ pfCfg = [entry |-> "none"]
    /\ acc = [read |-> FALSE]
    /\ files = [p \in Paths |-> "absent"]
    /\ effects = <<>>
    /\ derr = DPending
    /\ dret = DPending

\* ---------------------------------------------------------------- initial

Init ==
    /\ \E present \in Requests \cup {Absent} :
       \E spec \in IF present = HonoredRequest THEN ClusterConfigSpecs ELSE IgnoredSpecs :
         clusterConfigs =
           [r \in Requests |->
              IF r = present THEN [Spec |-> spec, Status |-> Status("", "")]
              ELSE Absent]
    /\ nodes \in NodeLists
    /\ \E stored \in SUBSET NodeConfigKeys :
         nodeConfigs =
           [k \in NodeConfigKeys |->
              IF k \in stored
              THEN [Spec |-> EmptyNodeConfigSpec, Status |-> AgentStatus]
              ELSE Absent]
    /\ pc = "idle"
    /\ req = HonoredRequest
    /\ nodeCfgs = <<>>
    /\ ncList = {}
    /\ idx = 1
    /\ st = Status("", "")
    /\ ret = Pending
    /\ calls = <<>>
    /\ passes = 0
    /\ startStore = nodeConfigs
    /\ prevCreated = FALSE
    /\ DaemonIdle

\* ----------------------------------------------------------------- passes

\* updateStatus("Ignored", ...)
IgnoredStatus ==
    Status("Ignored", "Only SriovFecClusterConfig with name 'config' and namespace 'sriov-fec-system' are handled")

\* updateStatus("NfdFailure", ...)
NfdFailureStatus ==
    Status("NfdFailure", "failed to obtain nodes with Intel accelerator - check logs")

\* mutant: NodeConfigsCreated is written whatever syncNodeConfigs returned
syncStatus_AlwaysCreated(err) == Status("NodeConfigsCreated", "")

\* Reconcile: the status written after syncNodeConfigs returned err
syncStatus(err) ==
    IF err # NoErr
    THEN Status("NodeConfigsCreationFailed", "failed to create NodeConfigs - check logs")
    ELSE Status("NodeConfigsCreated", "")

\* mutant: the error of the inventory query is swallowed
nfdReturn_Nil(err) == NoErr

\* Reconcile: the error returned after the inventory query failed
nfdReturn(err) == err

\* mutant: the NotFound answer of the first Get is returned as an error
notFoundReturn_Err(err) == err

\* Reconcile: an object that is not found is not an error
notFoundReturn(err) == NoErr

\* mutant: a failed syncNodeConfigs is returned without updateStatus
AfterSync_ReturnsOnError(err) == IF err # NoErr THEN "done" ELSE "status"

\* Reconcile: updateStatus follows syncNodeConfigs, whatever it returned
AfterSync(err) == "status"

\* mutant: the loop over nodeCfgs goes on after a failed call
upsertNext_Continues(err, i, cfgs) ==
    IF i <= Len(cfgs) THEN [pc |-> "upsert", err |-> NoErr]
    ELSE [pc |-> "return", err |-> NoErr]

\* syncNodeConfigs: the loop over nodeCfgs goes on while no call failed
upsertNext(err, i, cfgs) ==
    IF err # NoErr THEN [pc |-> "return", err |-> err]
    ELSE IF i <= Len(cfgs) THEN [pc |-> "upsert", err |-> NoErr]
    ELSE [pc |-> "return", err |-> NoErr]

\* mutant: removeOldNodeConfigs deletes nothing
removeOldNext_NoDeletes(err, rest, cfgs) ==
    IF err # NoErr THEN [pc |-> "return", err |-> err]
    ELSE upsertNext(NoErr, 1, cfgs)

\* mutant: a failed Delete is logged and the loop goes on
removeOldNext_Continues(err, rest, cfgs) ==
    IF \E k \in rest : deleteNC(k, cfgs) THEN [pc |-> "deleting", err |-> NoErr]
    ELSE upsertNext(NoErr, 1, cfgs)

\* removeOldNodeConfigs: a failed Delete is returned, else the loop over the
\* listed items goes on; updateOrCreateNodeConfig runs after the loop
removeOldNext(err, rest, cfgs) ==
    IF err # NoErr THEN [pc |-> "return", err |-> err]
    ELSE IF \E k \in rest : deleteNC(k, cfgs) THEN [pc |-> "deleting", err |-> NoErr]
    ELSE upsertNext(NoErr, 1, cfgs)

\* syncNodeConfigs goes on at n.pc, or returns n.err to Reconcile
SyncStep(n) ==
    IF n.pc = "return"
    THEN pc' = AfterSync(n.err) /\ st' = syncStatus(n.err) /\ ret' = n.err
    ELSE pc' = n.pc /\ UNCHANGED <<st, ret>>

\* Reconcile up to the inventory query: Get, the identity check, the
\* structural validation
Reconcile(r) ==
    /\ pc \in {"idle", "done"}
    /\ passes < MaxPasses
    /\ passes' = passes + 1
    /\ req' = r
    /\ startStore' = nodeConfigs
    /\ prevCreated' = (pc = "done" /\ ret = NoErr /\ st.SyncStatus = "NodeConfigsCreated")
    /\ nodeCfgs' = <<>>
    /\ ncList' = {}
    /\ idx' = 1
    /\ UNCHANGED <<daemonVars, clusterConfigs, nodes, nodeConfigs>>
    /\ \E getErr \in BOOLEAN :
         IF getErr
         THEN /\ calls' = <<Call("Get", r.Namespace, r.Name, "ClusterConfig", "get failed")>>
              /\ st' = Status("", "")
              /\ ret' = "get failed"
              /\ pc' = "done"
         ELSE IF clusterConfigs[r] = Absent
         THEN /\ calls' = <<Call("Get", r.Namespace, r.Name, "ClusterConfig", "NotFound")>>
              /\ st' = Status("", "")
              /\ ret' = notFoundReturn("NotFound")
              /\ pc' = "done"
         ELSE /\ calls' = <<Call("Get", r.Namespace, r.Name, "ClusterConfig", NoErr)>>
              /\ IF IdentityIgnored(r)
                 THEN st' = IgnoredStatus /\ ret' = NoErr /\ pc' = "status"
                 ELSE IF InvalidConfigReason(clusterConfigs[r].Spec) # ""
                 THEN /\ st' = Status("InvalidConfig", InvalidConfigReason(clusterConfigs[r].Spec))
                      /\ ret' = NoErr
                      /\ pc' = "status"
                 ELSE st' = Status("", "") /\ ret' = Pending /\ pc' = "inventory"

\* getNodesWithIntelAccelerator, then renderNodeConfigs
GetNodes ==
    /\ pc = "inventory"
    /\ UNCHANGED <<daemonVars, clusterConfigs, nodes, nodeConfigs, req, ncList, idx, passes,
                   startStore, prevCreated>>
    /\ \E listErr \in BOOLEAN :
         IF listErr
         THEN /\ calls' = Append(calls, Call("List", "", "", "Nodes", "list nodes failed"))
              /\ st' = NfdFailureStatus
              /\ ret' = nfdReturn("list nodes failed")
              /\ pc' = "status"
              /\ UNCHANGED nodeCfgs
         ELSE /\ calls' = Append(calls, Call("List", "", "", "Nodes", NoErr))
              /\ nodeCfgs' = renderNodeConfigs(clusterConfigs[req].Spec, nodes)
              /\ pc' = "removeOld"
              /\ UNCHANGED <<st, ret>>

\* removeOldNodeConfigs: the List over every namespace; NotFound is not an error
ListNodeConfigs ==
    /\ pc = "removeOld"
    /\ UNCHANGED <<daemonVars, clusterConfigs, nodes, nodeConfigs, req, nodeCfgs, idx, passes,
                   startStore, prevCreated>>
    /\ \E answer \in {NoErr, "NotFound", "list nodeconfigs failed"} :
         \* the control plane answers NotFound only while it stores no NodeConfig
         /\ answer = "NotFound" => \A k \in NodeConfigKeys : nodeConfigs[k] = Absent
         /\ LET items == IF answer = NoErr
                         THEN {k \in NodeConfigKeys : nodeConfigs[k] # Absent}
                         ELSE {}
                err == IF answer = "NotFound" THEN NoErr ELSE answer
            IN /\ calls' = Append(calls, Call("List", "", "", "NodeConfigs", answer))
               /\ ncList' = items
               /\ SyncStep(removeOldNext(err, items, nodeCfgs))

\* removeOldNodeConfigs: the Delete of the next listed item that is not part
\* of the new node configs (List promises no order)
DeleteOld ==
    /\ pc = "deleting"
    /\ UNCHANGED <<daemonVars, clusterConfigs, nodes, req, nodeCfgs, idx, passes, startStore,
                   prevCreated>>
    /\ \E k \in ncList, err \in {NoErr, "delete failed"} :
         /\ deleteNC(k, nodeCfgs)
         /\ calls' = Append(calls, Call("Delete", k.Namespace, k.Name, "", err))
         /\ nodeConfigs' = IF err = NoErr THEN [nodeConfigs EXCEPT ![k] = Absent]
                           ELSE nodeConfigs
         /\ ncList' = ncList \ {k}
         /\ SyncStep(removeOldNext(err, ncList \ {k}, nodeCfgs))

\* updateOrCreateNodeConfig: the object Create stores
createdNodeConfig(nodeCfg) == [Spec |-> nodeCfg.Spec, Status |-> EmptyStatus]

\* mutant: Update is given the rendered object instead of the fetched one
updatedNodeConfig_Rendered(old, nodeCfg) == createdNodeConfig(nodeCfg)

\* updateOrCreateNodeConfig: prev.Spec = nodeCfg.Spec, then Update(prev)
updatedNodeConfig(old, nodeCfg) == [old EXCEPT !.Spec = nodeCfg.Spec]

\* updateOrCreateNodeConfig of nodeCfgs[idx]
UpdateOrCreate ==
    /\ pc = "upsert"
    /\ UNCHANGED <<daemonVars, clusterConfigs, nodes, req, nodeCfgs, ncList, passes, startStore,
                   prevCreated>>
    /\ LET cfg == nodeCfgs[idx]
           k == [Namespace |-> cfg.Namespace, Name |-> cfg.Name]
           old == nodeConfigs[k]
       IN \E outcome \in {"ok", "get failed", "write failed"} :
            /\ IF outcome = "get failed"
               THEN /\ calls' = Append(calls, Call("Get", k.Namespace, k.Name, "NodeConfig", "get failed"))
                    /\ UNCHANGED nodeConfigs
               ELSE IF old = Absent
               THEN /\ calls' = calls \o
                        << Call("Get", k.Namespace, k.Name, "NodeConfig", "NotFound"),
                           Call("Create", k.Namespace, k.Name, "",
                                IF outcome = "ok" THEN NoErr ELSE "create failed") >>
                    /\ nodeConfigs' = IF outcome = "ok"
                                      THEN [nodeConfigs EXCEPT ![k] = createdNodeConfig(cfg)]
                                      ELSE nodeConfigs
               ELSE /\ calls' = calls \o
                        << Call("Get", k.Namespace, k.Name, "NodeConfig", NoErr),
                           Call("Update", k.Namespace, k.Name,
                                IF old.Spec = cfg.Spec THEN "same" ELSE "changed",
                                IF outcome = "ok" THEN NoErr ELSE "update failed") >>
                    /\ nodeConfigs' = IF outcome = "ok"
                                      THEN [nodeConfigs EXCEPT ![k] = updatedNodeConfig(old, cfg)]
                                      ELSE nodeConfigs
            /\ idx' = idx + 1
            /\ SyncStep(upsertNext(
                 IF outcome = "ok" THEN NoErr
                 ELSE IF outcome = "get failed" THEN "get failed"
                 ELSE IF old = Absent THEN "create failed" ELSE "update failed",
                 idx + 1, nodeCfgs))

\* mutant: a failed status write is returned by a pass that had no error
statusReturn_WriteError(result, err) ==
    IF err # NoErr /\ result = NoErr THEN err ELSE result

\* updateStatus: the error of Status().Update is logged; Reconcile returns
\* what it was about to return
statusReturn(result, err) == result

\* updateStatus: Status().Update of the loaded object; a failure is only logged
UpdateStatus ==
    /\ pc = "status"
    /\ UNCHANGED <<daemonVars, nodes, nodeConfigs, req, nodeCfgs, ncList, idx, st, passes,
                   startStore, prevCreated>>
    /\ \E err \in {NoErr, "status update failed"} :
         /\ calls' = Append(calls, Call("StatusUpdate", req.Namespace, req.Name, st.SyncStatus, err))
         /\ clusterConfigs' = IF err = NoErr
                              THEN [clusterConfigs EXCEPT ![req].Status = st]
                              ELSE clusterConfigs
         /\ ret' = statusReturn(ret, err)
    /\ pc' = "done"

Next ==
    \/ \E r \in Requests : Reconcile(r)
    \/ GetNodes
    \/ ListNodeConfigs
    \/ DeleteOld
    \/ UpdateOrCreate
    \/ UpdateStatus

Spec == Init /\ [][Next]_vars

\* the per-node agent of a stored SriovFecNodeConfig that carries no status
\* yet writes the status of its object, at any time
AgentUpdatesStatus ==
    /\ \E k \in NodeConfigKeys :
         /\ nodeConfigs[k] # Absent
         /\ nodeConfigs[k].Status = EmptyStatus
         /\ nodeConfigs' = [nodeConfigs EXCEPT ![k].Status = LaterAgentStatus]
    /\ UNCHANGED <<daemonVars, clusterConfigs, nodes, pc, req, nodeCfgs, ncList, idx, st, ret,
                   calls, passes, startStore, prevCreated>>

NextWithAgent ==
    \/ Next
    \/ AgentUpdatesStatus

\* the engine next to the per-node agents
SpecWithAgent == Init /\ [][NextWithAgent]_vars

\* ------------------------------------------------- renderNodeConfigs alone

\* renderNodeConfigs over wider inputs: three nodes, card configs that differ
RenderNodeNames == {"n1", "n2", "n3"}
RenderCardConfigs == {"cardA", "cardB"}
RenderCardLists == SeqsUpTo(RenderCardConfigs, MaxRenderCards)
RenderNodeConfig ==
    [NodeName : RenderNodeNames, OneCardConfigForAll : BOOLEAN, Cards : RenderCardLists]

\* the specs Reconcile hands to renderNodeConfigs: those its validation accepts
RenderSpecs ==
    {spec \in [OneNodeConfigForAll : BOOLEAN,
               Nodes : SeqsUpTo(RenderNodeConfig, Cardinality(RenderNodeNames))] :
        InvalidConfigReason(spec) = ""}

RenderNodeLists ==
    {s \in SeqsUpTo(RenderNodeNames, Cardinality(RenderNodeNames)) :
        \A i, j \in DOMAIN s : i # j => s[i] # s[j]}

RenderInit ==
    /\ \E spec \in RenderSpecs :
         clusterConfigs =
           [r \in Requests |->
              IF r = HonoredRequest THEN [Spec |-> spec, Status |-> Status("", "")]
              ELSE Absent]
    /\ nodes \in RenderNodeLists
    /\ nodeConfigs = [k \in NodeConfigKeys |-> Absent]
    /\ pc = "render"
    /\ req = HonoredRequest
    /\ nodeCfgs = <<>>
    /\ ncList = {}
    /\ idx = 1
    /\ st = Status("", "")
    /\ ret = Pending
    /\ calls = <<>>
    /\ passes = 0
    /\ startStore = nodeConfigs
    /\ prevCreated = FALSE
    /\ DaemonIdle

\* Reconcile: nodeConfigs := r.renderNodeConfigs(clusterConfig, nodeList)
Render ==
    /\ pc = "render"
    /\ nodeCfgs' = renderNodeConfigs(clusterConfigs[req].Spec, nodes)
    /\ pc' = "rendered"
    /\ UNCHANGED <<daemonVars, clusterConfigs, nodes, nodeConfigs, req, ncList, idx, st, ret,
                   calls, passes, startStore, prevCreated>>

RenderNext == Render

RenderSpec == RenderInit /\ [][RenderNext]_vars

\* --------------------------------------- the daemon: pfBBConfigController

\* the most NumQueueGroups one QueueGroupConfig asks for
MaxNumQueueGroups == 3
\* the highest exit code of an executed command
MaxExitCode == 2

maxQueueGroups == 8
pfConfigAppFilepath == "/sriov_workdir/pf_bb_config"
\* p.sharedVfioToken
sharedVfioToken == "shared-vfio-token"

QueueGroupConfigs == [NumQueueGroups : 0..MaxNumQueueGroups]

\* sriovv2.ACC100BBDevConfig: the fields the capacity check reads
ACC100BBDevConfigs ==
    [Uplink4G : QueueGroupConfigs, Downlink4G : QueueGroupConfigs,
     Uplink5G : QueueGroupConfigs, Downlink5G : QueueGroupConfigs]

\* sriovv2.N3000BBDevConfig: no field of it is checked
N3000BBDevConfigs == {[PFMode |-> FALSE]}

\* sriovv2.BBDevConfig: two pointers
BBDevConfigs ==
    [N3000 : N3000BBDevConfigs \cup {Nil}, ACC100 : ACC100BBDevConfigs \cup {Nil}]

\* how logBBDevConfigFile and cfg.SaveTo end: a failed SaveTo may leave a file
GenerateOutcomes == {"ok", "log failed", "save failed", "save failed, file left"}

\* mutant: only the 4G queue groups are counted
totalQueueGroups_4GOnly(nc) ==
    nc.Uplink4G.NumQueueGroups + nc.Downlink4G.NumQueueGroups

\* generateACC100BBDevConfigFile: totalQueueGroups
totalQueueGroups(nc) ==
    (nc.Uplink4G.NumQueueGroups + nc.Downlink4G.NumQueueGroups)
    + (nc.Uplink5G.NumQueueGroups + nc.Downlink5G.NumQueueGroups)

\* logBBDevConfigFile, then cfg.SaveTo(file): the error and what SaveTo did to
\* the file ("none": SaveTo was not called)
saveConfig(variant, io) ==
    IF io = "log failed"
    THEN [err |-> Errorf(<<"Unable to write config to log writer">>), write |-> "none"]
    ELSE IF io = "save failed"
    THEN [err |-> Errorf(<<"Unable to write config to file">>), write |-> "failed"]
    ELSE IF io = "save failed, file left"
    THEN [err |-> Errorf(<<"Unable to write config to file">>), write |-> "partial"]
    ELSE [err |-> DNoErr, write |-> variant]

generateN3000BBDevConfigFile(nc, io) ==
    IF nc = Nil
    THEN [err |-> Errorf(<<"received nil N3000BBDevConfig">>), write |-> "none"]
    ELSE saveConfig("N3000", io)

generateACC100BBDevConfigFile(nc, io) ==
    IF nc = Nil
    THEN [err |-> Errorf(<<"received nil ACC100BBDevConfig">>), write |-> "none"]
    ELSE IF totalQueueGroups(nc) > maxQueueGroups
    THEN [err |-> Errorf(<<"Total number of requested queue groups (4G/5G) exceeds the maximum">>),
          write |-> "none"]
    ELSE saveConfig("ACC100", io)

\* fmt.Errorf("... config file creation failed, %s", err)
wrapError(prefix, r) ==
    IF r.err = DNoErr THEN r
    ELSE [r EXCEPT !.err = Errorf(<<prefix>> \o r.err.Msg)]

generateBBDevConfigFile(cfg, io) ==
    IF cfg.ACC100 # Nil
    THEN wrapError("ACC100 config file creation failed", generateACC100BBDevConfigFile(cfg.ACC100, io))
    ELSE IF cfg.N3000 # Nil
    THEN wrapError("N3000 config file creation failed", generateN3000BBDevConfigFile(cfg.N3000, io))
    ELSE [err |-> Errorf(<<"Received nil configs">>), write |-> "none"]

\* what a generate call leaves at the path
filesAfterWrite(fs, path, write) ==
    IF write \in {"none", "failed"} THEN fs ELSE [fs EXCEPT ![path] = write]

Effect(op, arg, err) == [op |-> op, arg |-> arg, err |-> err]

effectsAfterWrite(es, path, r) ==
    IF r.write = "none" THEN es ELSE Append(es, Effect("SaveTo", path, r.err))

\* strings.ToLower, on the characters driver names are written with
ToLowerChar(c) ==
    CASE c = "V" -> "v" [] c = "F" -> "f" [] c = "I" -> "i" [] c = "O" -> "o"
      [] c = "P" -> "p" [] c = "C" -> "c" [] c = "G" -> "g" [] c = "B" -> "b"
      [] c = "U" -> "u" [] OTHER -> c

ToLower(s) == [i \in DOMAIN s |-> ToLowerChar(s[i])]

vfioPci == <<"v", "f", "i", "o", "-", "p", "c", "i">>

\* mutant: the driver is compared as it is written
usesVfioToken_CaseSensitive(pfDriver) == pfDriver = vfioPci

\* initializePfBBConfig: whether token points to the shared VFIO token
usesVfioToken(pfDriver) == ToLower(pfDriver) = ToLower(vfioPci)

tokenFor(pfDriver) ==
    IF usesVfioToken(pfDriver) THEN [Value |-> sharedVfioToken] ELSE Nil

\* mutant: every deviceName is handed to the tool
deviceNameAccepted_Any(deviceName) == TRUE

\* runPFConfig: the switch over deviceName
deviceNameAccepted(deviceName) == deviceName \in {"FPGA_LTE", "FPGA_5GNR", "ACC100"}

\* runPFConfig: the command line handed to runExecCmd
pfConfigCommand(deviceName, cfgFilepath, pciAddress, token) ==
    IF token = Nil
    THEN <<pfConfigAppFilepath, deviceName, "-c", cfgFilepath, "-p", pciAddress>>
    ELSE <<pfConfigAppFilepath, deviceName, "-c", cfgFilepath, "-v", token.Value, "-p", pciAddress>>

\* stopPfBBConfig: the command line handed to execAndSuppress
pkillCommand(pciAddress) ==
    <<"chroot", "/host/", "pkill", "-9", "-f", pkillPattern(pciAddress)>>

\* how an executed command ends: nil, an exit code other than 0, or the
\* command could not be run
ExecErrors ==
    {DNoErr} \cup {ExitError(c) : c \in 1..MaxExitCode} \cup {Errorf(<<"command not started">>)}

\* stopPfBBConfig: the errors of pkill that are suppressed
pkillSuppress(e) == e.Kind = "ExitError" /\ e.ExitCode = 1

\* execAndSuppress: the error of the command unless the caller suppresses it
execAndSuppress(e, suppress) == IF e # DNoErr /\ suppress THEN DNoErr ELSE e

\* mutant: a failed removal of the config file becomes the result of a call
\* whose tool step succeeded
initializeReturn_RemovalError(toolErr, removeErr) ==
    IF toolErr = DNoErr THEN removeErr ELSE toolErr

\* initializePfBBConfig: the deferred removal only logs its error
initializeReturn(toolErr, removeErr) == toolErr

\* stopPfBBConfig: nil when the socket file could not be removed, else the
\* error of pkill
stopReturn(err, removeErr) == IF removeErr # DNoErr THEN DNoErr ELSE err

\* the values of a physical function's driver: vfio-pci in several cases, others
UpperCaseOf(c) ==
    CASE c = "v" -> "V" [] c = "f" -> "F" [] c = "i" -> "I" [] c = "o" -> "O"
      [] c = "p" -> "P" [] c = "c" -> "C" [] OTHER -> c

UpperCased(s, at) == [i \in DOMAIN s |-> IF i \in at THEN UpperCaseOf(s[i]) ELSE s[i]]

PFDrivers ==
    {UpperCased(vfioPci, at) : at \in {{}, {1}, {8}, {6, 7}, 1..8}}
    \cup { <<"i", "g", "b", "_", "u", "i", "o">>,
           <<"v", "f", "i", "o", "-", "p", "c">>,
           <<"v", "f", "i", "o", "_", "p", "c", "i">>,
           <<>> }

\* supportedAccelerators.Devices[acc.DeviceID]: "" for an unknown device ID
DeviceNames == {"FPGA_LTE", "FPGA_5GNR", "ACC100", "", "ACC200"}

Entries == {"generateBBDevConfigFile", "initializePfBBConfig", "stopPfBBConfig"}

\* the operator's reconciler while the daemon is looked at: no pass runs
OperatorIdle ==
    /\ clusterConfigs = [r \in Requests |-> Absent]
    /\ nodes = <<>>
    /\ nodeConfigs = [k \in NodeConfigKeys |-> Absent]
    /\ pc = "idle"
    /\ req = HonoredRequest
    /\ nodeCfgs = <<>>
    /\ ncList = {}
    /\ idx = 1
    /\ st = Status("", "")
    /\ ret = Pending
    /\ calls = <<>>
    /\ passes = 0
    /\ startStore = nodeConfigs
    /\ prevCreated = FALSE

\* one call of the controller on one physical function; the working files
\* of the other one are there to be left alone
DaemonInit ==
    /\ OperatorIdle
    /\ dpc = "start"
    /\ \E entry \in Entries, a \in PCIAddresses :
       \E cfg \in IF entry = "stopPfBBConfig" THEN {[N3000 |-> Nil, ACC100 |-> Nil]}
                  ELSE BBDevConfigs :
       \E socks \in IF entry = "stopPfBBConfig"
                    THEN [{sockFileToBeDeleted(b) : b \in PCIAddresses} -> {"absent", "socket"}]
                    ELSE {[p \in {sockFileToBeDeleted(b) : b \in PCIAddresses} |-> "absent"]} :
         /\ pfCfg = [entry |-> entry, BBDevConfig |-> cfg, PCIAddress |-> a]
         /\ files = [p \in Paths |-> IF p \in DOMAIN socks THEN socks[p] ELSE "absent"]
    /\ acc = [read |-> FALSE]
    /\ effects = <<>>
    /\ derr = DPending
    /\ dret = DPending

\* generateBBDevConfigFile called on its own
GenerateBBDevConfigFile ==
    /\ dpc = "start"
    /\ pfCfg.entry = "generateBBDevConfigFile"
    /\ \E io \in GenerateOutcomes :
         LET path == bbdevConfigFilepath(pfCfg.PCIAddress)
             r == generateBBDevConfigFile(pfCfg.BBDevConfig, io)
         IN /\ files' = filesAfterWrite(files, path, r.write)
            /\ effects' = effectsAfterWrite(effects, path, r)
            /\ dret' = r.err
    /\ dpc' = "returned"
    /\ UNCHANGED <<operatorVars, pfCfg, acc, derr>>

\* initializePfBBConfig up to the defer: the nil check and generateBBDevConfigFile
InitializePfBBConfig ==
    /\ dpc = "start"
    /\ pfCfg.entry = "initializePfBBConfig"
    /\ IF pfCfg.BBDevConfig.N3000 # Nil \/ pfCfg.BBDevConfig.ACC100 # Nil
       THEN \E io \in GenerateOutcomes :
              LET path == bbdevConfigFilepath(pfCfg.PCIAddress)
                  r == generateBBDevConfigFile(pfCfg.BBDevConfig, io)
              IN /\ files' = filesAfterWrite(files, path, r.write)
                 /\ effects' = effectsAfterWrite(effects, path, r)
                 /\ IF r.err # DNoErr
                    THEN dret' = r.err /\ dpc' = "returned"
                    ELSE dret' = dret /\ dpc' = "generated"
       ELSE /\ dret' = DNoErr
            /\ dpc' = "returned"
            /\ UNCHANGED <<files, effects>>
    /\ UNCHANGED <<operatorVars, pfCfg, acc, derr>>

\* initializePfBBConfig: deviceName, token, runPFConfig
RunPFConfig ==
    /\ dpc = "generated"
    /\ \E deviceName \in DeviceNames, pfDriver \in PFDrivers, e \in ExecErrors :
         /\ acc' = [read |-> TRUE, deviceName |-> deviceName, PFDriver |-> pfDriver]
         /\ IF deviceNameAccepted(deviceName)
            THEN /\ effects' = Append(effects,
                       Effect("Exec",
                              pfConfigCommand(deviceName, bbdevConfigFilepath(pfCfg.PCIAddress),
                                              pfCfg.PCIAddress, tokenFor(pfDriver)),
                              e))
                 /\ derr' = e
            ELSE /\ effects' = effects
                 /\ derr' = Errorf(<<"incorrect deviceName for pf config", deviceName>>)
    /\ dpc' = "ran"
    /\ UNCHANGED <<operatorVars, pfCfg, files, dret>>

\* initializePfBBConfig: the deferred os.Remove(bbdevConfigFilepath)
RemoveBBDevConfigFile ==
    /\ dpc = "ran"
    /\ \E removeErr \in {DNoErr, Errorf(<<"remove failed">>)} :
         LET path == bbdevConfigFilepath(pfCfg.PCIAddress)
         IN /\ effects' = Append(effects, Effect("Remove", path, removeErr))
            /\ files' = IF removeErr = DNoErr THEN [files EXCEPT ![path] = "absent"] ELSE files
            /\ dret' = initializeReturn(derr, removeErr)
    /\ dpc' = "returned"
    /\ UNCHANGED <<operatorVars, pfCfg, acc, derr>>

\* stopPfBBConfig: pkill through execAndSuppress
StopPfBBConfig ==
    /\ dpc = "start"
    /\ pfCfg.entry = "stopPfBBConfig"
    /\ \E e \in ExecErrors :
         /\ effects' = Append(effects, Effect("Exec", pkillCommand(pfCfg.PCIAddress), e))
         /\ derr' = execAndSuppress(e, pkillSuppress(e))
    /\ dpc' = "killed"
    /\ UNCHANGED <<operatorVars, pfCfg, acc, files, dret>>

\* stopPfBBConfig: os.Remove(sockFileToBeDeleted); a file that is not there
\* cannot be removed
RemoveSockFile ==
    /\ dpc = "killed"
    /\ \E removeErr \in {DNoErr, Errorf(<<"remove failed">>)} :
         LET path == sockFileToBeDeleted(pfCfg.PCIAddress)
         IN /\ files[path] = "absent" => removeErr # DNoErr
            /\ effects' = Append(effects, Effect("Remove", path, removeErr))
            /\ files' = IF removeErr = DNoErr THEN [files EXCEPT ![path] = "absent"] ELSE files
            /\ dret' = stopReturn(derr, removeErr)
    /\ dpc' = "returned"
    /\ UNCHANGED <<operatorVars, pfCfg, acc, derr>>

DaemonNext ==
    \/ GenerateBBDevConfigFile
    \/ InitializePfBBConfig
    \/ RunPFConfig
    \/ RemoveBBDevConfigFile
    \/ StopPfBBConfig
    \/ RemoveSockFile

DaemonSpec == DaemonInit /\ [][DaemonNext]_vars

\* ------------------------------------------------- vocabulary of the claims

\* the running (or last) pass loaded its SriovFecClusterConfig
Loaded == calls # <<>> /\ calls[1].err = NoErr

\* the loaded object is the honored one and passed the structural validation
Accepted ==
    /\ Loaded
    /\ ~IdentityIgnored(req)
    /\ InvalidConfigReason(clusterConfigs[req].Spec) = ""

\* the rendered target of the pass
Target == IF Accepted THEN renderNodeConfigs(clusterConfigs[req].Spec, nodes) ELSE <<>>
TargetNames == {Target[i].Name : i \in DOMAIN Target}

StoredNames(store) == {k.Name : k \in {q \in NodeConfigKeys : store[q] # Absent}}

Failed(c) == c.err \notin {NoErr, "NotFound"}
IsNodeConfigCall(c) ==
    c.op \in {"Delete", "Create", "Update"} \/ (c.op = "Get" /\ c.arg = "NodeConfig")

CallsOf(ops) == {i \in DOMAIN calls : calls[i].op \in ops}
StatusWrites == CallsOf({"StatusUpdate"})

\* every call of the pass but its status write succeeded
NoFailedCall == \A i \in DOMAIN calls : calls[i].op # "StatusUpdate" => ~Failed(calls[i])

\* the key updateOrCreateNodeConfig addresses for a rendered object
KeyOf(cfg) == [Namespace |-> cfg.Namespace, Name |-> cfg.Name]

\* the last rendered object of a name
LastRendered(name) ==
    Target[CHOOSE i \in DOMAIN Target :
             /\ Target[i].Name = name
             /\ \A j \in DOMAIN Target : Target[j].Name = name => j <= i]

\* the names and specs of a store
Specs(store) ==
    [k \in NodeConfigKeys |-> IF store[k] = Absent THEN Absent ELSE store[k].Spec]

\* ------------------------------------------------------------------ claims

\* C1: within one pass every Delete of a stale node object is issued before
\* the first Create or Update of a target object; so when the target drops a
\* stored name and adds a name that was not stored, no state of the pass has
\* objects of both names stored.
C1_DeleteBeforeCreate ==
    /\ \A i \in CallsOf({"Delete"}), j \in CallsOf({"Create", "Update"}) : i < j
    /\ LET target == TargetNames
           before == StoredNames(startStore)
           now    == StoredNames(nodeConfigs)
       IN \A n1, n4 \in NodeNames :
            ( /\ pc # "idle"
              /\ n1 \in before /\ n1 \notin target
              /\ n4 \notin before /\ n4 \in target )
            => ~(n1 \in now /\ n4 \in now)

\* a pass that deleted the dropped name and then created the added one
C1_Witness ==
    \E n1, n4 \in NodeNames :
       /\ n1 \in StoredNames(startStore) /\ n1 \notin TargetNames
       /\ n4 \notin StoredNames(startStore) /\ n4 \in TargetNames
       /\ \E i \in CallsOf({"Delete"}), j \in CallsOf({"Create"}) :
            /\ calls[i].name = n1 /\ ~Failed(calls[i])
            /\ calls[j].name = n4 /\ ~Failed(calls[j])

\* the pass is over and none of its calls failed
PassSucceeded == pc = "done" /\ Accepted /\ NoFailedCall

\* C2: after a pass in which no call failed the stored names are
\* the rendered names and every rendered object's spec is the stored one.
C2_Original ==
    PassSucceeded =>
      /\ StoredNames(nodeConfigs) = TargetNames
      /\ \A i \in DOMAIN Target :
           /\ nodeConfigs[KeyOf(Target[i])] # Absent
           /\ nodeConfigs[KeyOf(Target[i])].Spec = Target[i].Spec

\* What holds in place of C2: after a pass in which no call failed the stored
\* names are the rendered names and, for every rendered name, the object
\* stored under it in the namespace of the rendered objects carries the spec
\* of the last object rendered for that name.
C2_StoreMatchesTarget ==
    PassSucceeded =>
      /\ StoredNames(nodeConfigs) = TargetNames
      /\ \A n \in TargetNames :
           /\ nodeConfigs[KeyOf(LastRendered(n))] # Absent
           /\ nodeConfigs[KeyOf(LastRendered(n))].Spec = LastRendered(n).Spec

\* a successful pass that deleted, created and updated
C2_Witness ==
    /\ PassSucceeded
    /\ CallsOf({"Delete"}) # {}
    /\ CallsOf({"Create"}) # {}
    /\ \E i \in CallsOf({"Update"}) : calls[i].arg = "changed"

\* the running pass follows a pass that ended NodeConfigsCreated
SecondPass == prevCreated /\ pc # "idle" /\ ~IdentityIgnored(req)

\* C3: the pass after a successful one issues no Create and no
\* Delete, only Updates whose content is the stored one, and leaves names and
\* specs as it found them.
C3_Original ==
    SecondPass =>
      /\ CallsOf({"Create", "Delete"}) = {}
      /\ \A i \in CallsOf({"Update"}) : calls[i].arg = "same"
      /\ PassSucceeded => Specs(nodeConfigs) = Specs(startStore)

\* What holds in place of C3: the pass after a successful one issues no
\* Create and no Delete; its Updates carry the stored content as long as the
\* rendered names are distinct; when none of its calls fails it leaves names
\* and specs as it found them.
C3_SecondPassIdempotent ==
    SecondPass =>
      /\ CallsOf({"Create", "Delete"}) = {}
      /\ (\A i, j \in DOMAIN Target : Target[i].Name = Target[j].Name => i = j)
           => \A i \in CallsOf({"Update"}) : calls[i].arg = "same"
      /\ PassSucceeded => Specs(nodeConfigs) = Specs(startStore)

\* a second pass that went through its Updates
C3_Witness ==
    /\ SecondPass
    /\ PassSucceeded
    /\ Cardinality(CallsOf({"Update"})) >= 2

\* C4: a pass that loaded its SriovFecClusterConfig writes the status of that
\* object exactly once, and no call follows the write.
C4_StatusWrittenOnceAndLast ==
    /\ \A i \in StatusWrites :
         /\ i = Len(calls)
         /\ calls[i].ns = req.Namespace /\ calls[i].name = req.Name
    /\ (pc = "done" /\ Loaded) => Cardinality(StatusWrites) = 1

\* a pass that synchronised node objects and then wrote the status
C4_Witness ==
    /\ pc = "done"
    /\ Loaded
    /\ CallsOf({"Delete"}) # {}
    /\ CallsOf({"Create"}) # {}
    /\ StatusWrites = {Len(calls)}

\* the pass issued the write of NodeConfigsCreated with no error message and
\* returns no error
WroteCreated ==
    /\ \E i \in StatusWrites : calls[i].arg = "NodeConfigsCreated"
    /\ st = Status("NodeConfigsCreated", "")
    /\ ret = NoErr

InventoryOk == \E i \in CallsOf({"List"}) : calls[i].arg = "Nodes" /\ ~Failed(calls[i])

\* the status the last write of the pass stored, when that write succeeded
StatusStored ==
    (pc = "done" /\ StatusWrites # {} /\ ~Failed(calls[Len(calls)]))
      => clusterConfigs[req].Status = st

\* C5 as stated: NodeConfigsCreated is written, with no error returned,
\* exactly when the identity check, the validation, the inventory query and
\* every Delete, Create and Update of the pass succeeded.
C5_Original ==
    (pc = "done" /\ Loaded) =>
      ( WroteCreated <=>
          /\ Accepted
          /\ InventoryOk
          /\ \A i \in CallsOf({"Delete", "Create", "Update"}) : ~Failed(calls[i]) )

\* C5 amended: NodeConfigsCreated is written, with an empty lastSyncError and
\* no error returned, exactly when the identity check, the validation, the
\* inventory query, the listing of the stored node objects and every lookup,
\* Delete, Create and Update of the pass succeeded (NotFound is an answer to a
\* lookup or a listing, not a failure); it is never written after a failed call.
C5_CreatedIffAllSucceeded ==
    /\ (pc = "done" /\ Loaded) =>
         (WroteCreated <=> (Accepted /\ InventoryOk /\ NoFailedCall))
    /\ \A i \in StatusWrites :
         calls[i].arg = "NodeConfigsCreated" =>
           /\ \A j \in 1..(i - 1) : ~Failed(calls[j])
           /\ st.LastSyncError = ""
           /\ ret = NoErr
    /\ StatusStored

\* a pass that wrote NodeConfigsCreated after deleting and creating
C5_Witness ==
    /\ pc = "done"
    /\ WroteCreated
    /\ CallsOf({"Delete"}) # {}
    /\ CallsOf({"Create"}) # {}
    /\ clusterConfigs[req].Status = Status("NodeConfigsCreated", "")

\* a failed lookup, Create or Update of a target object
IsFailedUpsert(c) ==
    /\ c.op \in {"Create", "Update"} \/ (c.op = "Get" /\ c.arg = "NodeConfig")
    /\ Failed(c)

\* C6: when a lookup, Create or Update of a target object fails the pass
\* aborts at that object: the only call after it is the write of the status
\* NodeConfigsCreationFailed, and the error is returned.
C6_AbortsAtFailedObject ==
    /\ \A i \in DOMAIN calls :
         IsFailedUpsert(calls[i]) =>
           /\ pc \in {"status", "done"}
           /\ ret = calls[i].err
           /\ st.SyncStatus = "NodeConfigsCreationFailed"
           /\ \A j \in (i + 1)..Len(calls) :
                /\ calls[j].op = "StatusUpdate"
                /\ calls[j].arg = "NodeConfigsCreationFailed"
           /\ pc = "done" => Cardinality(StatusWrites) = 1
    /\ StatusStored

\* a pass that failed at its first target object with a second one to go
C6_Witness ==
    /\ pc = "done"
    /\ Len(Target) = 2
    /\ Target[1].Name # Target[2].Name
    /\ \E i \in DOMAIN calls :
         /\ IsFailedUpsert(calls[i])
         /\ calls[i].op = "Create"
         /\ calls[i].name = Target[1].Name
    /\ nodeConfigs[KeyOf(Target[2])] # Absent
    /\ nodeConfigs[KeyOf(Target[2])].Spec # Target[2].Spec
    /\ clusterConfigs[req].Status.SyncStatus = "NodeConfigsCreationFailed"

IsFailedDelete(c) == c.op = "Delete" /\ Failed(c)

\* C7 as stated: when a Delete of a stale node object fails the pass aborts,
\* the error is returned and the pass writes no status.
C7_Original ==
    \A i \in DOMAIN calls :
       IsFailedDelete(calls[i]) =>
         /\ \A j \in (i + 1)..Len(calls) : ~IsNodeConfigCall(calls[j])
         /\ ret = calls[i].err
         /\ pc = "done" => StatusWrites = {}

\* C7 amended: when a Delete of a stale node object fails the pass aborts (no
\* further Delete, no lookup, Create or Update), the error is returned, and
\* the pass writes the status once, as NodeConfigsCreationFailed.
C7_DeleteFailureAborts ==
    \A i \in DOMAIN calls :
       IsFailedDelete(calls[i]) =>
         /\ pc \in {"status", "done"}
         /\ ret = calls[i].err
         /\ \A j \in (i + 1)..Len(calls) :
              /\ calls[j].op = "StatusUpdate"
              /\ calls[j].arg = "NodeConfigsCreationFailed"
         /\ pc = "done" => Cardinality(StatusWrites) = 1

\* a pass whose Delete failed with another stale object and a target to go
C7_Witness ==
    /\ pc = "done"
    /\ \E i \in DOMAIN calls : IsFailedDelete(calls[i])
    /\ \E k \in NodeConfigKeys :
         /\ nodeConfigs[k] # Absent
         /\ k.Name \notin TargetNames
         /\ \A i \in CallsOf({"Delete"}) : calls[i].ns # k.Namespace \/ calls[i].name # k.Name
    /\ \E n \in TargetNames : n \notin StoredNames(nodeConfigs)

\* the structural rules of a desired state
StructuralViolation(spec) ==
    \/ /\ spec.OneNodeConfigForAll
       /\ (Len(spec.Nodes) # 1 \/ ~spec.Nodes[1].OneCardConfigForAll)
    \/ \E i \in DOMAIN spec.Nodes :
         spec.Nodes[i].OneCardConfigForAll /\ Len(spec.Nodes[i].Cards) # 1

\* C8: a pass for the honored object ends InvalidConfig exactly when the
\* desired state breaks a structural rule; it then returns no error and calls
\* nothing but the load and the status write.
C8_InvalidConfigExactly ==
    (pc = "done" /\ Loaded /\ req = HonoredRequest) =>
      /\ st.SyncStatus = "InvalidConfig" <=> StructuralViolation(clusterConfigs[req].Spec)
      /\ StructuralViolation(clusterConfigs[req].Spec) =>
           /\ ret = NoErr
           /\ st.LastSyncError # ""
           /\ Len(calls) = 2
           /\ calls[2].op = "StatusUpdate" /\ calls[2].arg = "InvalidConfig"
           /\ nodeConfigs = startStore
      /\ StatusStored

\* an InvalidConfig pass over a per-node desired state whose second entry
\* asks for one card config for all and gives none
C8_Witness ==
    /\ pc = "done" /\ Loaded /\ req = HonoredRequest
    /\ st.SyncStatus = "InvalidConfig"
    /\ ~clusterConfigs[req].Spec.OneNodeConfigForAll
    /\ Len(clusterConfigs[req].Spec.Nodes) = 2
    /\ ~clusterConfigs[req].Spec.Nodes[1].OneCardConfigForAll
    /\ clusterConfigs[req].Spec.Nodes[2].OneCardConfigForAll
    /\ clusterConfigs[req].Status.SyncStatus = "InvalidConfig"

\* C9: a pass for an existing object of another name or namespace ends
\* Ignored with a message, returns no error and calls nothing but the load and
\* the status write, whatever the spec of the object.
C9_OtherIdentityIgnored ==
    (pc = "done" /\ Loaded /\ req # HonoredRequest) =>
      /\ st.SyncStatus = "Ignored"
      /\ st.LastSyncError # ""
      /\ ret = NoErr
      /\ Len(calls) = 2
      /\ calls[2].op = "StatusUpdate" /\ calls[2].arg = "Ignored"
      /\ nodeConfigs = startStore
      /\ StatusStored

\* an Ignored pass over an object of the honored namespace whose spec breaks
\* a structural rule
C9_Witness ==
    /\ pc = "done" /\ Loaded
    /\ req.Namespace = NAMESPACE /\ req.Name # DEFAULT_CLUSTER_CONFIG_NAME
    /\ StructuralViolation(clusterConfigs[req].Spec)
    /\ clusterConfigs[req].Status.SyncStatus = "Ignored"

IsFailedInventory(c) == c.op = "List" /\ c.arg = "Nodes" /\ Failed(c)

\* C10: when the inventory query fails the pass writes NfdFailure, returns
\* the error of the query and calls nothing on node objects, so the stored
\* node objects are as the pass found them.
C10_InventoryFailure ==
    /\ \A i \in DOMAIN calls :
         IsFailedInventory(calls[i]) =>
           /\ pc \in {"status", "done"}
           /\ st.SyncStatus = "NfdFailure"
           /\ ret = calls[i].err
           /\ \A j \in (i + 1)..Len(calls) :
                calls[j].op = "StatusUpdate" /\ calls[j].arg = "NfdFailure"
           /\ nodeConfigs = startStore
           /\ pc = "done" => Cardinality(StatusWrites) = 1
    /\ StatusStored

\* an NfdFailure pass that had stale node objects to delete
C10_Witness ==
    /\ pc = "done"
    /\ \E i \in DOMAIN calls : IsFailedInventory(calls[i])
    /\ \E n \in StoredNames(nodeConfigs) : n \notin TargetNames
    /\ clusterConfigs[req].Status.SyncStatus = "NfdFailure"

\* the first Get of the pass answered NotFound
ObjectAbsent == calls # <<>> /\ calls[1].op = "Get" /\ calls[1].err = "NotFound"

\* C11: when the SriovFecClusterConfig named in the request does not exist
\* the pass is a no-op: its only call is the Get, it returns no error, writes
\* no status, queries no inventory and leaves every stored node object (the
\* stale ones too) and every stored SriovFecClusterConfig as it found them.
C11_AbsentObjectNoOp ==
    ObjectAbsent =>
      /\ pc = "done"
      /\ Len(calls) = 1
      /\ ret = NoErr
      /\ StatusWrites = {}
      /\ CallsOf({"List"}) = {}
      /\ nodeConfigs = startStore
      /\ clusterConfigs[req] = Absent

\* a pass for the honored identity that found no object while node objects
\* were stored
C11_Witness ==
    /\ ObjectAbsent
    /\ req = HonoredRequest
    /\ StoredNames(nodeConfigs) # {}
    /\ pc = "done"

\* a step of the engine
EngineStep == <<calls, passes>>' # <<calls, passes>>

\* C12: no step of the engine changes the status of a stored node object:
\* the only change it makes to an object that stays stored is the Update of
\* updateOrCreateNodeConfig, which stores the rendered spec next to the status
\* the object had; the per-node agents write statuses meanwhile.
C12_EngineKeepsNodeStatus ==
    [][EngineStep =>
         \A k \in NodeConfigKeys :
            (nodeConfigs[k] # Absent /\ nodeConfigs'[k] # Absent) =>
              /\ nodeConfigs'[k].Status = nodeConfigs[k].Status
              /\ nodeConfigs'[k] # nodeConfigs[k] =>
                   /\ pc = "upsert"
                   /\ k = KeyOf(nodeCfgs[idx])
                   /\ nodeConfigs'[k].Spec = nodeCfgs[idx].Spec]_vars

\* the key a call on a node object addresses
CallKey(c) == [Namespace |-> c.ns, Name |-> c.name]

\* a pass that stored a new spec next to the status an object carried from
\* the start, and updated an object that an earlier pass created and whose
\* status the agent wrote since
C12_Witness ==
    /\ pc = "done"
    /\ \E i \in CallsOf({"Update"}) :
         /\ ~Failed(calls[i])
         /\ calls[i].arg = "changed"
         /\ startStore[CallKey(calls[i])] # Absent
         /\ startStore[CallKey(calls[i])].Status = AgentStatus
         /\ nodeConfigs[CallKey(calls[i])].Status = AgentStatus
         /\ nodeConfigs[CallKey(calls[i])].Spec # startStore[CallKey(calls[i])].Spec
    /\ \E j \in CallsOf({"Update"}) :
         /\ ~Failed(calls[j])
         /\ startStore[CallKey(calls[j])] # Absent
         /\ startStore[CallKey(calls[j])].Status = LaterAgentStatus
         /\ nodeConfigs[CallKey(calls[j])].Status = LaterAgentStatus

\* the input and the output of the last renderNodeConfigs
Desired == clusterConfigs[req].Spec
Inventory == {nodes[i] : i \in DOMAIN nodes}

\* C13: with OneNodeConfigForAll, renderNodeConfigs returns one object per
\* inventory node, in inventory order, named after its node, carrying the
\* Cards of the single declared entry; the NodeName of that entry changes
\* nothing.
C13_UniformRender ==
    (pc = "rendered" /\ Desired.OneNodeConfigForAll) =>
      /\ Len(nodeCfgs) = Len(nodes)
      /\ \A i \in DOMAIN nodes :
           /\ nodeCfgs[i].Name = nodes[i]
           /\ nodeCfgs[i].Spec.Cards = Desired.Nodes[1].Cards
           /\ nodeCfgs[i].Spec.OneCardConfigForAll
      /\ \A n \in RenderNodeNames :
           renderNodeConfigs([Desired EXCEPT !.Nodes[1].NodeName = n], nodes) = nodeCfgs

\* a fan-out to two nodes, in an order that is not that of the names, of an
\* entry declared for a third node
C13_Witness ==
    /\ pc = "rendered"
    /\ Desired.OneNodeConfigForAll
    /\ nodes = <<"n2", "n1">>
    /\ Desired.Nodes[1].NodeName = "n3"
    /\ Desired.Nodes[1].Cards = <<"cardB">>
    /\ Len(nodeCfgs) = 2

\* the positions of the declared entries whose node is in the inventory
KeptEntries == {i \in DOMAIN Desired.Nodes : Desired.Nodes[i].NodeName \in Inventory}

\* C14: without OneNodeConfigForAll, renderNodeConfigs returns, in the order
\* of the declared entries, one object for each entry whose node is in the
\* inventory, carrying the entry's OneCardConfigForAll and Cards; an entry
\* whose node is not in the inventory gives no object and does not stop the
\* entries after it, and an inventory node without entry gets no object.
C14_PerNodeRender ==
    (pc = "rendered" /\ ~Desired.OneNodeConfigForAll) =>
      /\ Len(nodeCfgs) = Cardinality(KeptEntries)
      /\ \E f \in [DOMAIN nodeCfgs -> KeptEntries] :
           /\ \A i, j \in DOMAIN nodeCfgs : i < j => f[i] < f[j]
           /\ \A j \in DOMAIN nodeCfgs :
                /\ nodeCfgs[j].Name = Desired.Nodes[f[j]].NodeName
                /\ nodeCfgs[j].Spec.OneCardConfigForAll = Desired.Nodes[f[j]].OneCardConfigForAll
                /\ nodeCfgs[j].Spec.Cards = Desired.Nodes[f[j]].Cards
      /\ \A j \in DOMAIN nodeCfgs : nodeCfgs[j].Name \in Inventory
      /\ \A n \in Inventory :
           (\A i \in DOMAIN Desired.Nodes : Desired.Nodes[i].NodeName # n)
             => \A j \in DOMAIN nodeCfgs : nodeCfgs[j].Name # n

\* three entries of which the second is dropped and the third is rendered,
\* and an inventory node without entry
C14_Witness ==
    /\ pc = "rendered"
    /\ ~Desired.OneNodeConfigForAll
    /\ Len(Desired.Nodes) = 3
    /\ KeptEntries = {1, 3}
    /\ Len(nodeCfgs) = 2
    /\ nodeCfgs[2].Name = Desired.Nodes[3].NodeName
    /\ nodeCfgs[1].Spec # nodeCfgs[2].Spec
    /\ \E n \in Inventory : \A i \in DOMAIN Desired.Nodes : Desired.Nodes[i].NodeName # n

\* ------------------------------------------------- the claims on the daemon

ArtifactPath == bbdevConfigFilepath(pfCfg.PCIAddress)
EffectsOf(op) == {i \in DOMAIN effects : effects[i].op = op}
IsError(e) == e.Kind \in {"error", "ExitError"}

\* the call compiles a BBDevConfig and is past generateBBDevConfigFile
Compiled ==
    /\ pfCfg.entry \in {"generateBBDevConfigFile", "initializePfBBConfig"}
    /\ dpc # "start"

\* the sum of the four numQueueGroups
QueueGroupsAsked(nc) ==
    nc.Uplink4G.NumQueueGroups + nc.Downlink4G.NumQueueGroups
    + nc.Uplink5G.NumQueueGroups + nc.Downlink5G.NumQueueGroups

CapacityError(e) ==
    /\ e.Kind = "error"
    /\ \E i \in DOMAIN e.Msg :
         e.Msg[i] = "Total number of requested queue groups (4G/5G) exceeds the maximum"

\* C15: compiling an ACC100 config whose four numQueueGroups sum to more than
\* 8 returns the capacity error, calls SaveTo not at all and leaves no file at
\* any path; a sum of 8 or less never gives the capacity error.
C15_CapacityRejected ==
    (Compiled /\ pfCfg.BBDevConfig.ACC100 # Nil) =>
      IF QueueGroupsAsked(pfCfg.BBDevConfig.ACC100) > 8
      THEN /\ dpc = "returned"
           /\ CapacityError(dret)
           /\ effects = <<>>
           /\ \A p \in Paths : files[p] = "absent"
      ELSE ~CapacityError(dret)

\* initializePfBBConfig returned the capacity error for a sum of 9
C15_Witness ==
    /\ dpc = "returned"
    /\ pfCfg.entry = "initializePfBBConfig"
    /\ pfCfg.BBDevConfig.ACC100 # Nil
    /\ QueueGroupsAsked(pfCfg.BBDevConfig.ACC100) = 9
    /\ pfCfg.BBDevConfig.ACC100.Uplink4G.NumQueueGroups
         + pfCfg.BBDevConfig.ACC100.Downlink4G.NumQueueGroups <= 8
    /\ CapacityError(dret)
    /\ files[ArtifactPath] = "absent"

\* how many of the two variants are populated
VariantsPopulated ==
    (IF pfCfg.BBDevConfig.N3000 # Nil THEN 1 ELSE 0)
    + (IF pfCfg.BBDevConfig.ACC100 # Nil THEN 1 ELSE 0)

\* C16 as stated: generateBBDevConfigFile writes an artifact only when exactly
\* one variant is populated; with none or both populated it returns an error
\* and writes no file.
C16_Original ==
    (Compiled /\ pfCfg.entry = "generateBBDevConfigFile") =>
      /\ EffectsOf("SaveTo") # {} => VariantsPopulated = 1
      /\ VariantsPopulated # 1 =>
           /\ IsError(dret)
           /\ effects = <<>>
           /\ files[ArtifactPath] = "absent"

\* What holds in place of C16: with no variant populated
\* generateBBDevConfigFile returns an error and writes no file; with both
\* populated the N3000 config is not looked at.
C16_NoVariantRejected ==
    (Compiled /\ pfCfg.entry = "generateBBDevConfigFile") =>
      /\ VariantsPopulated = 0 =>
           /\ IsError(dret)
           /\ effects = <<>>
           /\ files[ArtifactPath] = "absent"
      /\ \A i \in EffectsOf("SaveTo") :
           VariantsPopulated = 2 => files[ArtifactPath] \in {"absent", "partial", "ACC100"}

AcceptedDeviceFamilies == {"FPGA_LTE", "FPGA_5GNR", "ACC100"}

\* C17: initializePfBBConfig with a deviceName that is none of FPGA_LTE,
\* FPGA_5GNR, ACC100 (the empty name too) returns an error and executes no
\* command; with one of the three it executes pf_bb_config exactly once.
C17_DeviceFamilyValidated ==
    pfCfg.entry = "initializePfBBConfig" =>
      IF ~acc.read THEN EffectsOf("Exec") = {}
      ELSE IF acc.deviceName \in AcceptedDeviceFamilies
      THEN /\ Cardinality(EffectsOf("Exec")) = 1
           /\ \A i \in EffectsOf("Exec") :
                /\ effects[i].arg[1] = pfConfigAppFilepath
                /\ effects[i].arg[2] = acc.deviceName
      ELSE /\ EffectsOf("Exec") = {}
           /\ IsError(derr)
           /\ dpc = "returned" => IsError(dret)

\* a call for an unknown device ID that returned its error, after the
\* artifact was written and removed
C17_Witness ==
    /\ pfCfg.entry = "initializePfBBConfig"
    /\ dpc = "returned"
    /\ acc.read
    /\ acc.deviceName = ""
    /\ EffectsOf("SaveTo") # {}
    /\ EffectsOf("Exec") = {}
    /\ IsError(dret)

\* two driver names that differ in case only
SameIgnoringCase(a, b) ==
    /\ Len(a) = Len(b)
    /\ \A i \in DOMAIN a :
         a[i] = b[i] \/ UpperCaseOf(a[i]) = b[i] \/ a[i] = UpperCaseOf(b[i])

\* C18: the command line of pf_bb_config is
\* <toolpath> <deviceName> -c <artifactPath> -v <token> -p <pciAddress> exactly
\* when PFDriver is vfio-pci in any case, and
\* <toolpath> <deviceName> -c <artifactPath> -p <pciAddress>, without -v, for
\* every other driver.
C18_CommandLine ==
    pfCfg.entry = "initializePfBBConfig" =>
      \A i \in EffectsOf("Exec") :
         IF SameIgnoringCase(acc.PFDriver, vfioPci)
         THEN effects[i].arg =
                <<pfConfigAppFilepath, acc.deviceName, "-c", ArtifactPath,
                  "-v", sharedVfioToken, "-p", pfCfg.PCIAddress>>
         ELSE /\ effects[i].arg =
                   <<pfConfigAppFilepath, acc.deviceName, "-c", ArtifactPath,
                     "-p", pfCfg.PCIAddress>>
              /\ \A j \in DOMAIN effects[i].arg : effects[i].arg[j] # "-v"

\* a command line with -v for a driver written in capitals
C18_Witness ==
    /\ pfCfg.entry = "initializePfBBConfig"
    /\ acc.read
    /\ acc.PFDriver = <<"V", "F", "I", "O", "-", "P", "C", "I">>
    /\ \E i \in EffectsOf("Exec") :
         /\ Len(effects[i].arg) = 8
         /\ effects[i].arg[5] = "-v"
         /\ effects[i].arg[7] = "-p"

\* C19: when initializePfBBConfig wrote the artifact, the removal of the
\* artifact is its last effect, attempted once, after the tool step, whether
\* the tool succeeded, failed or was not run for the device family; a removal
\* that succeeds leaves no file, and the call returns the result of the tool
\* step whatever the removal answered.
C19_ArtifactRemoved ==
    ( /\ pfCfg.entry = "initializePfBBConfig"
      /\ dpc = "returned"
      /\ \E i \in EffectsOf("SaveTo") : effects[i].err = DNoErr ) =>
      /\ acc.read
      /\ EffectsOf("Remove") = {Len(effects)}
      /\ effects[Len(effects)].arg = ArtifactPath
      /\ effects[Len(effects)].err = DNoErr => files[ArtifactPath] = "absent"
      /\ dret = derr
      /\ \A i \in EffectsOf("Exec") : dret = effects[i].err

\* the tool succeeded, the removal failed: the call returns nil and the file
\* is still there
C19_Witness ==
    /\ pfCfg.entry = "initializePfBBConfig"
    /\ dpc = "returned"
    /\ \E i \in EffectsOf("Exec") : effects[i].err = DNoErr
    /\ effects[Len(effects)].op = "Remove"
    /\ effects[Len(effects)].err # DNoErr
    /\ files[ArtifactPath] # "absent"
    /\ dret = DNoErr

\* the exit of pkill: the error of the first effect of stopPfBBConfig
PkillExit == effects[1].err

\* C20 as stated: stopPfBBConfig returns nil when pkill exits with 0 or 1 and
\* an error when it exits with another code, whether the removal of the
\* socket file succeeds or fails; the removal is attempted in every case.
C20_Original ==
    (pfCfg.entry = "stopPfBBConfig" /\ dpc = "returned") =>
      /\ (PkillExit = DNoErr \/ PkillExit = ExitError(1)) => dret = DNoErr
      /\ (PkillExit.Kind = "ExitError" /\ PkillExit.ExitCode # 1) => IsError(dret)
      /\ EffectsOf("Remove") = {2}

\* What holds in place of C20: the removal of the socket file is attempted in
\* every case; exits 0 and 1 of pkill give nil; another exit is returned only
\* when the socket file was removed, and nil is returned when it was not.
C20_TeardownResult ==
    (pfCfg.entry = "stopPfBBConfig" /\ dpc = "returned") =>
      /\ EffectsOf("Remove") = {2}
      /\ effects[2].arg = sockFileToBeDeleted(pfCfg.PCIAddress)
      /\ (PkillExit = DNoErr \/ PkillExit = ExitError(1)) => dret = DNoErr
      /\ (PkillExit.Kind = "ExitError" /\ PkillExit.ExitCode # 1) =>
           IF effects[2].err = DNoErr THEN dret = PkillExit ELSE dret = DNoErr

\* ------------------------------------------ more claims on the reconciler

\* the error of the call that made the pass fail
FailedCallError ==
    LET failed == {i \in DOMAIN calls : calls[i].op # "StatusUpdate" /\ Failed(calls[i])}
    IN IF failed = {} THEN NoErr ELSE calls[CHOOSE i \in failed : TRUE].err

\* the value a pass returns, as its status tells
ReturnOfStatus ==
    IF st.SyncStatus \in {"Ignored", "InvalidConfig", "NodeConfigsCreated"} THEN NoErr
    ELSE FailedCallError

\* C23: a failed status write changes nothing of the outcome of the pass: the
\* value the pass returns is the one it had before the write (no error on the
\* Ignored, InvalidConfig and NodeConfigsCreated paths, the error of the failed
\* call on the NfdFailure and NodeConfigsCreationFailed paths), the write is
\* the last step of the pass, and the stored node objects stay as they were.
C23_StatusWriteFailureIgnored ==
    /\ [](pc = "done" /\ StatusWrites # {} => ret = ReturnOfStatus)
    /\ [](pc = "status" =>
            /\ ret = ReturnOfStatus
            /\ st.SyncStatus \in {"NfdFailure", "NodeConfigsCreationFailed"} => ret # NoErr)
    /\ [][pc = "status" =>
            /\ pc' = "done"
            /\ ret' = ret
            /\ nodeConfigs' = nodeConfigs]_vars

\* a pass that deleted and created, ended NodeConfigsCreated and could not
\* write its status
C23_Witness ==
    /\ pc = "done"
    /\ StatusWrites = {Len(calls)}
    /\ Failed(calls[Len(calls)])
    /\ calls[Len(calls)].arg = "NodeConfigsCreated"
    /\ ret = NoErr
    /\ CallsOf({"Delete"}) # {}
    /\ CallsOf({"Create"}) # {}
    /\ clusterConfigs[req].Status.SyncStatus # "NodeConfigsCreated"

\* the pass is past removeOldNodeConfigs and no Delete of it failed
RemovedOld ==
    /\ Accepted
    /\ pc \in {"upsert", "status", "done"}
    /\ \E i \in CallsOf({"List"}) : calls[i].arg = "NodeConfigs" /\ calls[i].err = NoErr
    /\ \A i \in CallsOf({"Delete"}) : ~Failed(calls[i])

\* C24: removeOldNodeConfigs goes by name over the objects of every
\* namespace: a Delete is only issued for a stored object whose name no target
\* object has; once the removal is through, every such object is gone,
\* whatever its namespace; an object whose name a target object has is never
\* deleted, and outside the namespace of the target objects it is not touched
\* at all, since lookups, Creates and Updates address that namespace only.
C24_StaleRemovalByName ==
    LET target  == TargetNames
        deletes == CallsOf({"Delete"})
        removed == RemovedOld
    IN pc # "idle" =>
         /\ \A i \in deletes :
              /\ calls[i].name \notin target
              /\ startStore[CallKey(calls[i])] # Absent
         /\ \A i \in DOMAIN calls :
              (calls[i].op \in {"Create", "Update"} \/ (calls[i].op = "Get" /\ calls[i].arg = "NodeConfig"))
                => calls[i].ns = NodeConfigNamespace /\ calls[i].name \in target
         /\ \A k \in NodeConfigKeys :
              startStore[k] # Absent =>
                IF k.Name \in target
                THEN /\ nodeConfigs[k] # Absent
                     /\ k.Namespace # NodeConfigNamespace => nodeConfigs[k] = startStore[k]
                ELSE removed =>
                       /\ nodeConfigs[k] = Absent
                       /\ \E i \in deletes : CallKey(calls[i]) = k

\* a pass without failure that ends with two stored objects of one name: the
\* one it created and the one of another namespace it kept
C24_Witness ==
    /\ PassSucceeded
    /\ \E k1, k2 \in NodeConfigKeys :
         /\ k1.Name = k2.Name
         /\ k1.Namespace = NodeConfigNamespace
         /\ k2.Namespace # NodeConfigNamespace
         /\ startStore[k1] = Absent
         /\ nodeConfigs[k1] # Absent
         /\ nodeConfigs[k2] # Absent
         /\ nodeConfigs[k2] = startStore[k2]
         /\ \E i \in CallsOf({"Create"}) : CallKey(calls[i]) = k1

\* the pass drops the stored name n1 and adds the name n4
Replaces(n1, n4) ==
    /\ pc # "idle"
    /\ n1 \in StoredNames(startStore) /\ n1 \notin TargetNames
    /\ n4 \notin StoredNames(startStore) /\ n4 \in TargetNames

\* the calls of the pass that succeeded on an object of the name
DoneOn(op, name) ==
    {i \in CallsOf({op}) : calls[i].name = name /\ ~Failed(calls[i])}

\* C22 as stated: while a pass replaces n1 by n4, one of the two objects is
\* stored in every state.
C22_Original ==
    \A n1, n4 \in NodeNames :
       Replaces(n1, n4) =>
         ~(n1 \notin StoredNames(nodeConfigs) /\ n4 \notin StoredNames(nodeConfigs))

\* C22: while a pass replaces n1 by n4, n4's object is stored exactly from
\* its Create on; as long as an object of n1 is stored n4's has not been
\* created, and once it has, n1's objects are gone, each Delete of them
\* before the Create. From the last Delete of n1 to the Create of n4 both
\* objects are missing.
C22_RemovedBeforeAdded ==
    LET target == TargetNames
        before == StoredNames(startStore)
        now    == StoredNames(nodeConfigs)
    IN \A n1 \in before \ target, n4 \in target \ before :
          pc # "idle" =>
            LET created == DoneOn("Create", n4)
                deleted == DoneOn("Delete", n1)
            IN /\ n4 \in now <=> created # {}
               /\ n1 \in now => created = {}
               /\ created # {} =>
                    /\ n1 \notin now
                    /\ deleted # {}
                    /\ \A i \in deleted, j \in created : i < j
               /\ (n1 \notin now /\ created = {}) =>
                    /\ deleted # {}
                    /\ n4 \notin now

\* n1's object is deleted, the Create of n4 is still to come: both are missing
C22_Witness ==
    \E n1, n4 \in NodeNames :
       /\ Replaces(n1, n4)
       /\ pc = "upsert"
       /\ DoneOn("Delete", n1) # {}
       /\ n1 \notin StoredNames(nodeConfigs)
       /\ n4 \notin StoredNames(nodeConfigs)

\* the calls of the pass that changed the store
Applied == {i \in CallsOf({"Delete", "Create", "Update"}) : ~Failed(calls[i])}

\* the new node config a Create or Update of the pass carried: the loop of
\* syncNodeConfigs issues one of them for each new node config, in order
Carried(i) ==
    nodeCfgs[Cardinality({j \in CallsOf({"Create", "Update"}) : j <= i})]

\* the last change of the pass to the object of a key, 0 when there is none
LastApplied(k) ==
    LET on == {i \in Applied : CallKey(calls[i]) = k}
    IN IF on = {} THEN 0 ELSE CHOOSE i \in on : \A j \in on : j <= i

\* every change the pass made is in the store, every other object is as the
\* pass found it
ChangesInPlace ==
    \A k \in NodeConfigKeys :
       LET i == LastApplied(k)
       IN IF i = 0 THEN nodeConfigs[k] = startStore[k]
          ELSE IF calls[i].op = "Delete" THEN nodeConfigs[k] = Absent
          ELSE /\ nodeConfigs[k] # Absent
               /\ nodeConfigs[k].Spec = Carried(i).Spec

\* the pass failed in the loop over the new node configs, after a change
FailedPartway ==
    /\ pc \in {"status", "done"}
    /\ st.SyncStatus = "NodeConfigsCreationFailed"
    /\ Applied # {}
    /\ \E i \in DOMAIN calls :
         /\ Failed(calls[i])
         /\ calls[i].op \in {"Get", "Create", "Update"}
         /\ calls[i].ns = NodeConfigNamespace

\* the second pass, when the first one created an object and did not end
\* NodeConfigsCreated: the first pass failed after that Create
AfterFailedPartway ==
    /\ passes = 2
    /\ pc # "idle"
    /\ ~prevCreated
    /\ \E k \in NodeConfigKeys :
         startStore[k] # Absent /\ startStore[k].Status = EmptyStatus

\* C21 as stated: the changes of a pass that failed partway through its
\* Creates and Updates stay in the store, and a later pass in which no call
\* fails leaves the stored names equal to the rendered names and every
\* rendered object's spec stored.
C21_Original ==
    /\ FailedPartway => ChangesInPlace
    /\ (AfterFailedPartway /\ PassSucceeded) =>
         /\ StoredNames(nodeConfigs) = TargetNames
         /\ \A i \in DOMAIN Target :
              /\ nodeConfigs[KeyOf(Target[i])] # Absent
              /\ nodeConfigs[KeyOf(Target[i])].Spec = Target[i].Spec

\* What holds of C21: the changes of a pass that failed partway stay in the
\* store, and the pass after it, when none of its calls fails, leaves the
\* stored names equal to the rendered names and under every rendered name the
\* spec of the last object rendered for it.
C21_LeftInPlaceThenConverges ==
    /\ FailedPartway => ChangesInPlace
    /\ (AfterFailedPartway /\ PassSucceeded) =>
         /\ StoredNames(nodeConfigs) = TargetNames
         /\ \A n \in TargetNames :
              /\ nodeConfigs[KeyOf(LastRendered(n))] # Absent
              /\ nodeConfigs[KeyOf(LastRendered(n))].Spec = LastRendered(n).Spec

\* a pass without a failed call after a pass that deleted, created and then
\* failed
C21_Reached ==
    /\ AfterFailedPartway
    /\ PassSucceeded
    /\ CallsOf({"Create"}) # {}
    /\ CallsOf({"Update"}) # {}

\* a pass that failed partway with a Delete and a Create in place
C21_PartialReached ==
    /\ FailedPartway
    /\ pc = "done"
    /\ \E i, j \in Applied : calls[i].op = "Delete" /\ calls[j].op = "Create"
    /\ nodeConfigs # startStore

====
